---- MODULE Spec2Model ----
(***************************************************************************)
(* The request-routing broker of rexec_broker (broker.py, auth.py,         *)
(* frames.py): a single-threaded event loop over three ZeroMQ endpoints    *)
(* (frontend ROUTER for clients, backend ROUTER with mandatory routing for *)
(* worker servers, control REP), an HTTP token validation call, and the    *)
(* teardown of run().                                                      *)
(*                                                                         *)
(* Representation.  A frame (Python bytes) is a sequence of octets 0..255; *)
(* a message is a sequence of frames; a Python str is a sequence of code   *)
(* points.  Absent values (None) are records with some = FALSE.            *)
(***************************************************************************)
EXTENDS Integers, Sequences, FiniteSets, TLC

(***************************************************************************)
(* Bounds of the model.                                                    *)
(***************************************************************************)
\* Messages the environment hands to the broker in one run (all endpoints).
MaxMsgs == 3
\* The same with monitoring on (debug mode).
MaxMsgsDebug == 1
\* Frames of a message given to split_envelope on its own.
MaxFrames == 4
\* Messages that wait at one socket when arrivals are not counted.
MaxPending == 1

(***************************************************************************)
(* Byte strings and texts that occur in the source.                        *)
(***************************************************************************)
EmptyFrame == << >>

\* broker.py:96  b"OK"
OK == <<79, 75>>
\* broker.py:97  b"TERMINATE", b"STOP", b"QUIT"
TERMINATE == <<84, 69, 82, 77, 73, 78, 65, 84, 69>>
STOP == <<83, 84, 79, 80>>
QUIT == <<81, 85, 73, 84>>
ShutdownCommands == {TERMINATE, STOP, QUIT}

\* broker.py:117  "Invalid request framing."
MsgInvalidFraming ==
  <<73, 110, 118, 97, 108, 105, 100, 32, 114, 101, 113, 117, 101, 115, 116,
    32, 102, 114, 97, 109, 105, 110, 103, 46>>
\* broker.py:124  "Token is not valid utf-8."
MsgTokenNotUtf8 ==
  <<84, 111, 107, 101, 110, 32, 105, 115, 32, 110, 111, 116, 32, 118, 97,
    108, 105, 100, 32, 117, 116, 102, 45, 56, 46>>
\* broker.py:130  "Token validation failed."
MsgTokenValidationFailed ==
  <<84, 111, 107, 101, 110, 32, 118, 97, 108, 105, 100, 97, 116, 105, 111,
    110, 32, 102, 97, 105, 108, 101, 100, 46>>
\* broker.py:150  "Server not available for user " ... "."
MsgServerNotAvailablePrefix ==
  <<83, 101, 114, 118, 101, 114, 32, 110, 111, 116, 32, 97, 118, 97, 105,
    108, 97, 98, 108, 101, 32, 102, 111, 114, 32, 117, 115, 101, 114, 32>>
FullStop == <<46>>

\* broker.py:150 without the closing full stop.
MsgServerNotAvailableNoStop(user_id) ==
  MsgServerNotAvailablePrefix \o user_id

\* broker.py:150  f"Server not available for user {user_id}."
MsgServerNotAvailable(user_id) ==
  MsgServerNotAvailablePrefix \o user_id \o FullStop

(***************************************************************************)
(* UTF-8, as bytes.decode("utf-8") and str.encode("utf-8") compute it.     *)
(***************************************************************************)
IsCont(b) == b >= 128 /\ b <= 191

\* Number of octets of the well-formed UTF-8 sequence that starts bs at
\* index i, or 0 when none does (the strict decoder: no overlong forms, no
\* surrogates, nothing above U+10FFFF).
Utf8SeqLen(bs, i) ==
  LET n  == Len(bs)
      b0 == bs[i]
      b1 == IF i + 1 <= n THEN bs[i + 1] ELSE 0
      b2 == IF i + 2 <= n THEN bs[i + 2] ELSE 0
      b3 == IF i + 3 <= n THEN bs[i + 3] ELSE 0
  IN  IF b0 < 128 THEN 1
      ELSE IF b0 >= 194 /\ b0 <= 223
        THEN IF IsCont(b1) THEN 2 ELSE 0
      ELSE IF b0 = 224
        THEN IF b1 >= 160 /\ b1 <= 191 /\ IsCont(b2) THEN 3 ELSE 0
      ELSE IF b0 = 237
        THEN IF b1 >= 128 /\ b1 <= 159 /\ IsCont(b2) THEN 3 ELSE 0
      ELSE IF b0 >= 225 /\ b0 <= 239
        THEN IF IsCont(b1) /\ IsCont(b2) THEN 3 ELSE 0
      ELSE IF b0 = 240
        THEN IF b1 >= 144 /\ b1 <= 191 /\ IsCont(b2) /\ IsCont(b3) THEN 4 ELSE 0
      ELSE IF b0 >= 241 /\ b0 <= 243
        THEN IF IsCont(b1) /\ IsCont(b2) /\ IsCont(b3) THEN 4 ELSE 0
      ELSE IF b0 = 244
        THEN IF b1 >= 128 /\ b1 <= 143 /\ IsCont(b2) /\ IsCont(b3) THEN 4 ELSE 0
      ELSE 0

\* The code point of the k-octet sequence that starts bs at index i.
Utf8CodePoint(bs, i, k) ==
  IF k = 1 THEN bs[i]
  ELSE IF k = 2 THEN (bs[i] - 192) * 64 + (bs[i + 1] - 128)
  ELSE IF k = 3
    THEN (bs[i] - 224) * 4096 + (bs[i + 1] - 128) * 64 + (bs[i + 2] - 128)
  ELSE (bs[i] - 240) * 262144 + (bs[i + 1] - 128) * 4096
         + (bs[i + 2] - 128) * 64 + (bs[i + 3] - 128)

RECURSIVE Utf8WellFormedFrom(_, _)
\* bs from index i on is a run of well-formed UTF-8 sequences.
Utf8WellFormedFrom(bs, i) ==
  \/ i > Len(bs)
  \/ /\ Utf8SeqLen(bs, i) # 0
     /\ Utf8WellFormedFrom(bs, i + Utf8SeqLen(bs, i))

RECURSIVE Utf8DecodeFrom(_, _)
\* The code points of bs from index i on, bs being well-formed from i on.
Utf8DecodeFrom(bs, i) ==
  IF i > Len(bs) THEN << >>
  ELSE <<Utf8CodePoint(bs, i, Utf8SeqLen(bs, i))>>
         \o Utf8DecodeFrom(bs, i + Utf8SeqLen(bs, i))

\* bytes.decode("utf-8"): [ok, s]; ok = FALSE is UnicodeDecodeError.
Utf8Decode(bs) ==
  IF Utf8WellFormedFrom(bs, 1)
    THEN [ok |-> TRUE, s |-> Utf8DecodeFrom(bs, 1)]
    ELSE [ok |-> FALSE, s |-> << >>]

IsSurrogate(c) == c >= 55296 /\ c <= 57343

\* The octets of one code point that is no surrogate.
Utf8EncodeOne(c) ==
  IF c < 128 THEN <<c>>
  ELSE IF c < 2048 THEN <<192 + (c \div 64), 128 + (c % 64)>>
  ELSE IF c < 65536
    THEN <<224 + (c \div 4096), 128 + ((c \div 64) % 64), 128 + (c % 64)>>
  ELSE <<240 + (c \div 262144), 128 + ((c \div 4096) % 64),
         128 + ((c \div 64) % 64), 128 + (c % 64)>>

RECURSIVE Utf8EncodeFrom(_, _)
\* The octets of the code points of s from index i on, none of them a
\* surrogate.
Utf8EncodeFrom(s, i) ==
  IF i > Len(s) THEN << >>
  ELSE Utf8EncodeOne(s[i]) \o Utf8EncodeFrom(s, i + 1)

\* str.encode("utf-8"): [ok, bytes]; ok = FALSE is UnicodeEncodeError
\* (a lone surrogate, which json decoding of "\ud800" produces).
Utf8Encode(s) ==
  IF \E i \in 1..Len(s) : IsSurrogate(s[i])
    THEN [ok |-> FALSE, bytes |-> << >>]
    ELSE [ok |-> TRUE, bytes |-> Utf8EncodeFrom(s, 1)]

(***************************************************************************)
(* pickle.dumps({"error": message}) and its inverse, at pickle protocol 4  *)
(* (the default of Python 3.8 and later) for a message whose UTF-8 form is *)
(* shorter than 256 octets:                                                *)
(*   PROTO 4, FRAME n(8 octets, little endian), EMPTY_DICT, MEMOIZE,       *)
(*   SHORT_BINUNICODE 5 "error", MEMOIZE, SHORT_BINUNICODE len message,    *)
(*   MEMOIZE, SETITEM, STOP.                                               *)
(***************************************************************************)
KeyError == <<101, 114, 114, 111, 114>>

\* The 8-octet little-endian form of n < 256.
LittleEndian8(n) == <<n, 0, 0, 0, 0, 0, 0, 0>>

\* broker.py:76  pickle.dumps({"error": message})
PickleDumpsError(message) ==
  LET m    == Utf8Encode(message).bytes
      body == <<125, 148, 140, Len(KeyError)>> \o KeyError
                \o <<148, 140, Len(m)>> \o m \o <<148, 115, 46>>
  IN  <<128, 4, 149>> \o LittleEndian8(Len(body)) \o body

\* pickle.loads of such a payload: [ok, error]; ok = FALSE when the octets
\* are not the pickle of a one-key {"error": <str>} dictionary.
PickleLoadsError(payload) ==
  LET n == Len(payload)
      bad == [ok |-> FALSE, error |-> << >>]
  IN  IF n < 26 THEN bad
      ELSE IF SubSeq(payload, 1, 3) # <<128, 4, 149>> THEN bad
      ELSE IF SubSeq(payload, 4, 11) # LittleEndian8(n - 11) THEN bad
      ELSE IF SubSeq(payload, 12, 21) # <<125, 148, 140, 5>> \o KeyError \o <<148>>
        THEN bad
      ELSE IF payload[22] # 140 \/ payload[23] # n - 26 THEN bad
      ELSE IF SubSeq(payload, n - 2, n) # <<148, 115, 46>> THEN bad
      ELSE LET d == Utf8Decode(SubSeq(payload, 24, n - 3))
           IN  IF d.ok THEN [ok |-> TRUE, error |-> d.s] ELSE bad

(***************************************************************************)
(* frames.py                                                               *)
(***************************************************************************)
\* The indices of the zero-length frames of a message.
EmptyIndices(frames) == {i \in 1..Len(frames) : frames[i] = EmptyFrame}

\* The least element of a non-empty set of integers.
Least(S) == CHOOSE i \in S : \A j \in S : i <= j

\* frames.py:14-23  split_envelope: [envelope, found, idx, body]; found =
\* FALSE is delimiter_index None.  idx is Python's 0-based index.
split_envelope_last(frames) ==
  LET E == EmptyIndices(frames)
  IN  IF E = {} THEN [envelope |-> << >>, found |-> FALSE, idx |-> 0,
                      body |-> frames]
      ELSE LET k == CHOOSE i \in E : \A j \in E : i >= j
           IN  [envelope |-> SubSeq(frames, 1, k - 1), found |-> TRUE,
                idx |-> k - 1, body |-> SubSeq(frames, k + 1, Len(frames))]

split_envelope(frames) ==
  LET E == EmptyIndices(frames)
  IN  IF E = {} THEN [envelope |-> << >>, found |-> FALSE, idx |-> 0,
                      body |-> frames]
      ELSE LET k == Least(E)
           IN  [envelope |-> SubSeq(frames, 1, k - 1), found |-> TRUE,
                idx |-> k - 1, body |-> SubSeq(frames, k + 1, Len(frames))]

(***************************************************************************)
(* auth.py                                                                 *)
(***************************************************************************)
\* Code points for which str.isspace() holds (those below U+3001).
Whitespace ==
  {9, 10, 11, 12, 13, 28, 29, 30, 31, 32, 133, 160, 5760, 8232, 8233, 8239,
   8287, 12288} \cup (8192..8202)

RECURSIVE LStrip(_)
LStrip(s) ==
  IF s # << >> /\ Head(s) \in Whitespace THEN LStrip(Tail(s)) ELSE s

RECURSIVE RStrip(_)
RStrip(s) ==
  IF s # << >> /\ s[Len(s)] \in Whitespace
    THEN RStrip(SubSeq(s, 1, Len(s) - 1)) ELSE s

\* str.strip()
Strip(s) == RStrip(LStrip(s))

RECURSIVE DecimalDigits(_)
\* str(n) of an integer n >= 0.
DecimalDigits(n) ==
  IF n < 10 THEN <<48 + n>> ELSE DecimalDigits(n \div 10) \o <<48 + (n % 10)>>

\* The "sub" member of the response's JSON object:
\*   t = "absent" (no such key), "null", "str" (s), "int" (n >= 0),
\*   "bool" (n = 1 is true).
SubValue(t, s, n) == [t |-> t, s |-> s, n |-> n]

TextTrue == <<84, 114, 117, 101>>

\* auth.py:23  str(data.get("sub") or "")
SubText(sub) ==
  IF sub.t = "str" THEN sub.s
  ELSE IF sub.t = "int" /\ sub.n # 0 THEN DecimalDigits(sub.n)
  ELSE IF sub.t = "bool" /\ sub.n = 1 THEN TextTrue
  ELSE << >>

\* What requests.post does for one call:
\*   kind = "exception": a requests.exceptions.RequestException (connection
\*     failure, timeout);
\*   kind = "response": status is the status code; body is "object" (a JSON
\*     object, with member sub), "array" or "string" (JSON, but no object),
\*     or "notjson" (response.json() raises).
AuthOutcome(kind, status, body, sub) ==
  [kind |-> kind, status |-> status, body |-> body, sub |-> sub]

\* Results of validate_token: a str, None, or an exception that leaves it.
Returned(user_id) == [raised |-> FALSE, some |-> TRUE, user_id |-> user_id]
ReturnedNone == [raised |-> FALSE, some |-> FALSE, user_id |-> << >>]
Raised == [raised |-> TRUE, some |-> FALSE, user_id |-> << >>]

\* auth.py:7-27 with the status test of line 18 dropped.
validate_token_any_status(o) ==
  IF o.kind = "exception" THEN ReturnedNone
  ELSE IF o.body = "notjson" THEN Raised
  ELSE IF o.body # "object" THEN Raised
  ELSE LET user_id == Strip(SubText(o.sub))
       IN  IF user_id = << >> THEN ReturnedNone ELSE Returned(user_id)

\* auth.py:7-27  validate_token
validate_token(o) ==
  IF o.kind = "exception" THEN ReturnedNone                    \* 14-16
  ELSE IF o.status # 200 THEN ReturnedNone                     \* 18-20
  ELSE IF o.body = "notjson" THEN Raised                       \* 22 json()
  ELSE IF o.body # "object" THEN Raised                        \* 23 data.get
  ELSE LET user_id == Strip(SubText(o.sub))                    \* 23
       IN  IF user_id = << >> THEN ReturnedNone                \* 24-26
           ELSE Returned(user_id)                              \* 27

(***************************************************************************)
(* The inputs of the model.                                                *)
(***************************************************************************)
Alice == <<97, 108, 105, 99, 101>>
Bob == <<98, 111, 98>>
Cid1 == <<99, 105, 100, 49>>
Cid2 == <<99, 105, 100, 50>>
TokAbc == <<116, 111, 107, 45, 97, 98, 99>>
DoWork == <<100, 111, 95, 119, 111, 114, 107>>
XEq1 == <<120, 61, 49>>
FrameP == <<112>>
FrameA == <<97>>
FrameRes == <<114, 101, 115>>
\* b"\xff\xfe": no UTF-8.
BadUtf8 == <<255, 254>>
\* "t" followed by U+00E9 in UTF-8.
TokAccent == <<116, 195, 169>>

\* Identities under which worker servers connect to the backend socket.
WorkerIds == {Alice}

\* The spec's scenario request: the delimiter is the first frame.
ScenarioRequest == <<EmptyFrame, TokAbc, DoWork, XEq1>>
\* The spec's scenario request with an invalid UTF-8 token.
ScenarioBadToken == <<Cid1, EmptyFrame, BadUtf8, FrameP, FrameA>>

\* Messages that frontend_socket.recv_multipart() returns.
ClientMessages ==
  { <<Cid1, EmptyFrame, TokAbc, DoWork, XEq1>>,
    ScenarioRequest,
    ScenarioBadToken,
    <<Cid1, Cid2, EmptyFrame, TokAccent, FrameP, EmptyFrame, FrameA>>,
    <<Cid1, EmptyFrame, TokAbc, FrameP>>,
    <<Cid1, TokAbc, FrameP, FrameA>> }

\* What a worker sends; the backend ROUTER socket puts the worker's
\* identity in front of it.
ServerReplies ==
  { <<Cid1, EmptyFrame, FrameRes>>,
    <<Cid1, Cid2, EmptyFrame, EmptyFrame, FrameRes, FrameA>> }

\* Commands sent to the control socket.
ControlCommands ==
  { TERMINATE, STOP, QUIT,
    <<116, 101, 114, 109, 105, 110, 97, 116, 101>>,     \* b"terminate"
    <<83, 84, 79, 80, 32>> }                            \* b"STOP "

NoSub == SubValue("absent", << >>, 0)

\* What the identity service does for one validation call.
AuthOutcomes ==
  { AuthOutcome("exception", 0, "notjson", NoSub),
    AuthOutcome("response", 401, "object", SubValue("str", Alice, 0)),
    AuthOutcome("response", 500, "notjson", NoSub),
    AuthOutcome("response", 201, "object", SubValue("str", Alice, 0)),
    AuthOutcome("response", 200, "object", SubValue("str", Alice, 0)),
    AuthOutcome("response", 200, "object", SubValue("str", <<32>> \o Bob \o <<32, 10>>, 0)),
    AuthOutcome("response", 200, "object", SubValue("str", <<233>>, 0)),
    AuthOutcome("response", 200, "object", SubValue("str", << >>, 0)),
    AuthOutcome("response", 200, "object", SubValue("str", <<32, 9>>, 0)),
    AuthOutcome("response", 200, "object", NoSub),
    AuthOutcome("response", 200, "object", SubValue("null", << >>, 0)),
    AuthOutcome("response", 200, "object", SubValue("int", << >>, 0)),
    AuthOutcome("response", 200, "object", SubValue("int", << >>, 42)),
    AuthOutcome("response", 200, "object", SubValue("str", <<55296>>, 0)),
    AuthOutcome("response", 200, "array", NoSub),
    AuthOutcome("response", 200, "string", NoSub),
    AuthOutcome("response", 200, "notjson", NoSub) }

NoOutcome == AuthOutcome("none", 0, "notjson", NoSub)

(***************************************************************************)
(* broker.py: the pieces of RExecBroker._proxy_loop and _reply_error.      *)
(***************************************************************************)
\* broker.py:77 run twice.
reply_error_twice(envelope, message) ==
  IF envelope = << >> THEN << >>
  ELSE << envelope \o <<EmptyFrame, PickleDumpsError(message)>>,
          envelope \o <<EmptyFrame, PickleDumpsError(message)>> >>

\* broker.py:77 without the delimiter frame.
reply_error_no_delimiter(envelope, message) ==
  IF envelope = << >> THEN << >>
  ELSE << envelope \o <<PickleDumpsError(message)>> >>

\* broker.py:69-77  _reply_error: the messages it sends on frontend_socket.
reply_error_unchecked(envelope, message) ==
  << envelope \o <<EmptyFrame, PickleDumpsError(message)>> >>

reply_error(envelope, message) ==
  IF envelope = << >> THEN << >>
  ELSE << envelope \o <<EmptyFrame, PickleDumpsError(message)>> >>

\* broker.py:137 with the client's identity frame as the destination.
outbound_by_envelope(server_id, envelope, body) ==
  (IF envelope = << >> THEN <<server_id>> ELSE <<Head(envelope)>>)
    \o envelope \o <<EmptyFrame>> \o Tail(body)

\* broker.py:137 with body in the place of body[1:].
outbound_with_token(server_id, envelope, body) ==
  <<server_id>> \o envelope \o <<EmptyFrame>> \o body

\* broker.py:137  outbound = [server_id] + envelope + [b""] + body[1:]
outbound(server_id, envelope, body) ==
  <<server_id>> \o envelope \o <<EmptyFrame>> \o Tail(body)

\* broker.py:122 with a decoder that accepts every octet (latin-1).
decode_token_lenient(body) == [ok |-> TRUE, s |-> body[1]]

\* broker.py:122  token = body[0].decode("utf-8"); ok = FALSE is the
\* UnicodeDecodeError of line 123.
decode_token(body) == Utf8Decode(body[1])

\* broker.py:110  delimiter_index is None or len(body) < 3
bad_framing_short(sp) == ~sp.found \/ Len(sp.body) < 2

bad_framing(sp) == ~sp.found \/ Len(sp.body) < 3

\* broker.py:104, 155 taking the message that arrived last.
recv_multipart_newest(queue) == queue[Len(queue)]

\* broker.py:104, 155  recv_multipart(): the message that waits longest.
recv_multipart(queue) == Head(queue)

\* broker.py:161 with the identity frame kept.
server_payload_whole(frames) == frames

\* broker.py:161  payload = frames[1:]
server_payload(frames) == Tail(frames)

\* broker.py:97 comparing without regard to case (only the upper-case
\* commands and b"terminate" are looked at).
is_shutdown_nocase(msg) ==
  msg \in ShutdownCommands \cup {<<116, 101, 114, 109, 105, 110, 97, 116, 101>>}

\* broker.py:97  msg in (b"TERMINATE", b"STOP", b"QUIT")
is_shutdown(msg) == msg \in ShutdownCommands

(***************************************************************************)
(* State.                                                                  *)
(***************************************************************************)
VARIABLES
  pc,          \* where the thread of run() is: "poll" (89), "control" (93),
               \* "frontend" (103), "auth" (128, inside requests.post),
               \* "backend" (154), "finally" (189), "closed" (after 199)
  events,      \* the sockets the last poller.poll() reported (89)
  clientQ,     \* messages waiting at frontend_socket
  serverQ,     \* messages waiting at backend_socket
  controlQ,    \* commands waiting at control_socket
  workers,     \* identities of the workers connected to backend_socket
  last,        \* what the handler that ran last received and sent
  exitCause,   \* why _proxy_loop was left: "none", "shutdown" (99),
               \* "interrupt" (186), "exception" (an exception run() does
               \* not catch)
  arrived,     \* messages handed to the broker so far
  served,      \* the sockets read since the last poller.poll()
  debug,       \* self.debug (58-61)
  sockets,     \* frontend_socket, backend_socket, control_socket: "open" or
               \* "closed"
  ctx,         \* zmq_context: "alive" or "destroyed"
  monitors,    \* frontend_monitor, backend_monitor, control_monitor: "none"
               \* (no debug), "open" or "closed"
  streams,     \* the event stream of each monitored socket: "idle",
               \* "stopped" (EVENT_MONITOR_STOPPED waits in it), "taken"
  observers,   \* where each event_monitor thread is: "none" (no debug),
               \* "poll" (24), "close" (34), "done" (35), "failed" (an
               \* exception left it)
  splitIn,     \* the argument of a call of split_envelope on its own
  splitOut     \* what that call returned

\* The state of _proxy_loop and of its sockets' queues.
loopVars ==
  <<pc, events, clientQ, serverQ, controlQ, workers, last, exitCause, arrived,
    served>>

\* The state that run() sets up and tears down.
runVars == <<debug, sockets, ctx, monitors, streams, observers>>

splitVars == <<splitIn, splitOut>>

vars == <<loopVars, runVars, splitVars>>

SocketNames == {"frontend", "backend", "control"}

\* The record of one handler run:
\*   sock      the endpoint it served ("none" before the first one)
\*   frames    the message it received
\*   stage     "auth" while validate_token is pending, else "done"
\*   auth      what the identity service did (NoOutcome: never asked)
\*   result    what validate_token gave back
\*   feSent    the messages it sent on frontend_socket
\*   beTried   the messages it handed to backend_socket.send_multipart
\*   beOk      whether that send succeeded
\*   ctlSent   the frames it sent on control_socket
\*   raised    whether an exception left the handler
Handled(sock, frames, stage, auth, result, feSent, beTried, beOk, ctlSent, raised) ==
  [sock |-> sock, frames |-> frames, stage |-> stage, auth |-> auth,
   result |-> result, feSent |-> feSent, beTried |-> beTried, beOk |-> beOk,
   ctlSent |-> ctlSent, raised |-> raised]

NoHandled ==
  Handled("none", << >>, "done", NoOutcome, ReturnedNone, << >>, << >>, FALSE,
          << >>, FALSE)

\* No call of split_envelope on its own has returned.
NoSplit == [envelope |-> << >>, found |-> FALSE, idx |-> 0 - 1, body |-> << >>]

\* broker.py:38-67, 172-181  the broker after __init__ and the start of
\* run(): in debug mode the monitor sockets are open and the three
\* event_monitor threads wait in poll().
InitBroker ==
  /\ pc = "poll"
  /\ events = {}
  /\ clientQ = << >>
  /\ serverQ = << >>
  /\ controlQ = << >>
  /\ workers = {}
  /\ last = NoHandled
  /\ exitCause = "none"
  /\ arrived = 0
  /\ served = {}
  /\ debug \in BOOLEAN
  /\ sockets = [s \in SocketNames |-> "open"]
  /\ ctx = "alive"
  /\ monitors = [s \in SocketNames |-> IF debug THEN "open" ELSE "none"]
  /\ streams = [s \in SocketNames |-> "idle"]
  /\ observers = [s \in SocketNames |-> IF debug THEN "poll" ELSE "none"]

Init ==
  /\ InitBroker
  /\ splitIn = << >>
  /\ splitOut = NoSplit

Running == pc \in {"poll", "control", "frontend", "auth", "backend"}

\* The thread of run() waits: in poller.poll() (89) or in requests.post
\* (auth.py:9).  The environment acts at these points; what arrives between
\* two statements of one iteration is not looked at before the next poll()
\* and so is the same as arriving when that poll() starts.
Waiting == pc \in {"poll", "auth"}

(***************************************************************************)
(* The environment: clients, workers, the operator.                        *)
(***************************************************************************)
\* The messages the environment hands to the broker in one run.
MsgBound == IF debug THEN MaxMsgsDebug ELSE MaxMsgs

ClientSend ==
  /\ Waiting /\ arrived < MsgBound
  /\ \E m \in ClientMessages : clientQ' = Append(clientQ, m)
  /\ arrived' = arrived + 1
  /\ UNCHANGED <<pc, events, serverQ, controlQ, workers, last, exitCause>>
  /\ UNCHANGED <<served, runVars, splitVars>>

\* A connected worker sends; recv_multipart() on the ROUTER socket gives
\* [identity] + message.
ServerSend ==
  /\ Waiting /\ arrived < MsgBound
  /\ \E w \in workers, m \in ServerReplies :
       serverQ' = Append(serverQ, <<w>> \o m)
  /\ arrived' = arrived + 1
  /\ UNCHANGED <<pc, events, clientQ, controlQ, workers, last, exitCause>>
  /\ UNCHANGED <<served, runVars, splitVars>>

ControlSend ==
  /\ Waiting /\ arrived < MsgBound
  /\ \E c \in ControlCommands : controlQ' = Append(controlQ, c)
  /\ arrived' = arrived + 1
  /\ UNCHANGED <<pc, events, clientQ, serverQ, workers, last, exitCause>>
  /\ UNCHANGED <<served, runVars, splitVars>>

WorkerConnect ==
  /\ Waiting
  /\ \E w \in WorkerIds \ workers : workers' = workers \cup {w}
  /\ UNCHANGED <<pc, events, clientQ, serverQ, controlQ, last, exitCause,
                 arrived>>
  /\ UNCHANGED <<served, runVars, splitVars>>

WorkerDisconnect ==
  /\ Waiting
  /\ \E w \in workers : workers' = workers \ {w}
  /\ UNCHANGED <<pc, events, clientQ, serverQ, controlQ, last, exitCause,
                 arrived>>
  /\ UNCHANGED <<served, runVars, splitVars>>

\* broker.py:186  KeyboardInterrupt, raised while the thread waits in
\* poller.poll() or in requests.post.
Interrupt ==
  /\ Waiting
  /\ pc' = "finally"
  /\ exitCause' = "interrupt"
  /\ UNCHANGED <<events, clientQ, serverQ, controlQ, workers, last, arrived>>
  /\ UNCHANGED <<served, runVars, splitVars>>

(***************************************************************************)
(* RExecBroker._proxy_loop                                                 *)
(***************************************************************************)
\* The statement reached after the frontend block (151 -> 154).
AfterFrontend(ev) == IF "backend" \in ev THEN "backend" ELSE "poll"

\* The statement reached after the control block (99 -> 103).
AfterControl(ev) == IF "frontend" \in ev THEN "frontend" ELSE AfterFrontend(ev)

\* broker.py:97-99 with the break put off to the end of the iteration.
after_command_deferred(msg, ev) == AfterControl(ev)

\* broker.py:97-103  the statement reached after the command msg was
\* acknowledged: the break of line 99 leaves the loop for the finally
\* block of run().
after_command(msg, ev) ==
  IF is_shutdown(msg) THEN "finally" ELSE AfterControl(ev)

\* The statement reached after poller.poll() (89 -> 93).
AfterPoll(ev) == IF "control" \in ev THEN "control" ELSE AfterControl(ev)

\* The sockets with a message waiting.
Ready ==
  {s \in {"control", "frontend", "backend"} :
     \/ s = "control" /\ controlQ # << >>
     \/ s = "frontend" /\ clientQ # << >>
     \/ s = "backend" /\ serverQ # << >>}

\* broker.py:89  events = dict(poller.poll()): blocks until a socket is
\* readable.
Poll ==
  /\ pc = "poll"
  /\ Ready # {}
  /\ events' = Ready
  /\ pc' = AfterPoll(Ready)
  /\ UNCHANGED <<clientQ, serverQ, controlQ, workers, last, exitCause, arrived>>
  /\ served' = {}
  /\ UNCHANGED <<runVars, splitVars>>

\* broker.py:93-99
HandleControl ==
  /\ pc = "control"
  /\ LET msg == Head(controlQ)
     IN  /\ controlQ' = Tail(controlQ)
         /\ last' = Handled("control", <<msg>>, "done", NoOutcome, ReturnedNone,
                            << >>, << >>, FALSE, <<OK>>, FALSE)
         /\ pc' = after_command(msg, events)
         /\ exitCause' = IF is_shutdown(msg) THEN "shutdown" ELSE exitCause
  /\ UNCHANGED <<events, clientQ, serverQ, workers, arrived>>
  /\ served' = served \cup {"control"}
  /\ UNCHANGED <<runVars, splitVars>>

\* broker.py:103-128  receive a client message; reply to bad framing and to
\* a token that is no UTF-8; otherwise call validate_token.
FrontendRecv ==
  /\ pc = "frontend"
  /\ LET frames == recv_multipart(clientQ)
         sp     == split_envelope(frames)
         token  == decode_token(sp.body)
         errs   == IF bad_framing(sp)
                     THEN reply_error(sp.envelope, MsgInvalidFraming)
                     ELSE reply_error(sp.envelope, MsgTokenNotUtf8)
     IN  /\ clientQ' = Tail(clientQ)
         /\ IF bad_framing(sp) \/ ~token.ok
              THEN /\ last' = Handled("frontend", frames, "done", NoOutcome,
                                      ReturnedNone, errs, << >>, FALSE, << >>,
                                      FALSE)
                   /\ pc' = "poll"                       \* continue
              ELSE /\ last' = Handled("frontend", frames, "auth", NoOutcome,
                                      ReturnedNone, << >>, << >>, FALSE, << >>,
                                      FALSE)
                   /\ pc' = "auth"
  /\ UNCHANGED <<events, serverQ, controlQ, workers, exitCause, arrived>>
  /\ served' = served \cup {"frontend"}
  /\ UNCHANGED <<runVars, splitVars>>

\* broker.py:128-150  validate_token returns (or raises); forward the
\* request or reply with an error.
AuthReturn ==
  /\ pc = "auth"
  /\ \E o \in AuthOutcomes :
       LET frames == last.frames
           sp     == split_envelope(frames)
           r      == validate_token(o)
           sid    == Utf8Encode(r.user_id)
           out    == outbound(sid.bytes, sp.envelope, sp.body)
           routed == sid.bytes \in workers
           done(res, fe, tried, ok, exc) ==
             Handled("frontend", frames, "done", o, res, fe, tried, ok, << >>, exc)
       IN  IF r.raised \/ (r.some /\ ~sid.ok)
             THEN \* an exception no handler of _proxy_loop or run() catches
                  /\ last' = done(r, << >>, << >>, FALSE, TRUE)
                  /\ pc' = "finally"
                  /\ exitCause' = "exception"
           ELSE IF ~r.some
             THEN LET errs == reply_error(sp.envelope, MsgTokenValidationFailed)
                  IN  /\ last' = done(r, errs, << >>, FALSE, FALSE)
                      /\ pc' = "poll"                    \* continue
                      /\ UNCHANGED exitCause
           ELSE IF routed
             THEN /\ last' = done(r, << >>, <<out>>, TRUE, FALSE)
                  /\ pc' = AfterFrontend(events)
                  /\ UNCHANGED exitCause
           ELSE \* zmq.ZMQError: EHOSTUNREACH under ROUTER_MANDATORY
                LET errs == reply_error(sp.envelope,
                                        MsgServerNotAvailable(r.user_id))
                IN  /\ last' = done(r, errs, <<out>>, FALSE, FALSE)
                    /\ pc' = AfterFrontend(events)
                    /\ UNCHANGED exitCause
  /\ UNCHANGED <<events, clientQ, serverQ, controlQ, workers, arrived>>
  /\ UNCHANGED <<served, runVars, splitVars>>

\* broker.py:154-169
HandleBackend ==
  /\ pc = "backend"
  /\ LET frames  == recv_multipart(serverQ)
         payload == IF frames = << >> THEN << >> ELSE <<server_payload(frames)>>
     IN  /\ serverQ' = Tail(serverQ)
         /\ last' = Handled("backend", frames, "done", NoOutcome, ReturnedNone,
                            payload, << >>, FALSE, << >>, FALSE)
  /\ pc' = "poll"
  /\ UNCHANGED <<events, clientQ, controlQ, workers, exitCause, arrived>>
  /\ served' = served \cup {"backend"}
  /\ UNCHANGED <<runVars, splitVars>>

(***************************************************************************)
(* RExecBroker.run: the finally block, and the event_monitor threads.      *)
(***************************************************************************)
\* The statement of the finally block that closes socket s, and the one
\* that calls disable_monitor() on its monitor socket.
ClosePc(s) ==
  IF s = "frontend" THEN "finally"
  ELSE IF s = "backend" THEN "close_backend" ELSE "close_control"

DisablePc(s) ==
  IF s = "frontend" THEN "disable_frontend"
  ELSE IF s = "backend" THEN "disable_backend" ELSE "disable_control"

\* broker.py:194 reading self.debug as set whatever the log level.
after_close_always_debug(s, dbg) ==
  IF s = "frontend" THEN "close_backend"
  ELSE IF s = "backend" THEN "close_control"
  ELSE "disable_frontend"

\* The statement reached after closing socket s (190 -> 191 -> 192 -> 194).
after_close(s, dbg) ==
  IF s = "frontend" THEN "close_backend"
  ELSE IF s = "backend" THEN "close_control"
  ELSE IF dbg THEN "disable_frontend" ELSE "destroy"

\* The statement reached after disable_monitor() of s returned
\* (195 -> 196 -> 197 -> 199).
after_disable(s) ==
  IF s = "frontend" THEN "disable_backend"
  ELSE IF s = "backend" THEN "disable_control" ELSE "destroy"

\* broker.py:190-192  frontend_socket.close(), backend_socket.close(),
\* control_socket.close(), one after the other.  A closed socket drops the
\* messages it had received and nobody read, and its peers are no longer
\* connected.  The close of a monitored socket ends its monitoring: libzmq
\* puts EVENT_MONITOR_STOPPED in its event stream, where the event_monitor
\* thread finds it at some later time.
CloseSocket ==
  /\ \E s \in SocketNames :
       /\ pc = ClosePc(s)
       /\ sockets' = [sockets EXCEPT ![s] = "closed"]
       /\ clientQ' = IF s = "frontend" THEN << >> ELSE clientQ
       /\ serverQ' = IF s = "backend" THEN << >> ELSE serverQ
       /\ workers' = IF s = "backend" THEN {} ELSE workers
       /\ controlQ' = IF s = "control" THEN << >> ELSE controlQ
       /\ streams' = [streams EXCEPT ![s] =
                        IF monitors[s] = "none" THEN "idle" ELSE "stopped"]
       /\ pc' = after_close(s, debug)
  /\ UNCHANGED <<events, last, exitCause, arrived, served>>
  /\ UNCHANGED <<debug, ctx, monitors, observers, splitVars>>

\* broker.py:195-197  disable_monitor() on the monitor socket of s.  The
\* monitor socket is a PAIR socket that watches nothing, so the call does
\* nothing while that socket is open; once event_monitor has closed it (34)
\* the call raises zmq.ZMQError (ENOTSOCK), which leaves run().
DisableMonitor ==
  /\ \E s \in SocketNames :
       /\ pc = DisablePc(s)
       /\ pc' = IF monitors[s] = "closed" THEN "aborted" ELSE after_disable(s)
  /\ UNCHANGED <<events, clientQ, serverQ, controlQ, workers, last, exitCause,
                 arrived, served>>
  /\ UNCHANGED <<runVars, splitVars>>

\* broker.py:199  zmq_context.destroy(): closes every socket of the context
\* that is still open (the monitor sockets) and terminates the context.
DestroyContext ==
  /\ pc = "destroy"
  /\ pc' = "closed"
  /\ ctx' = "destroyed"
  /\ monitors' = [s \in SocketNames |->
                    IF monitors[s] = "open" THEN "closed" ELSE monitors[s]]
  /\ UNCHANGED <<events, clientQ, serverQ, controlQ, workers, last, exitCause,
                 arrived, served>>
  /\ UNCHANGED <<debug, sockets, streams, observers, splitVars>>

\* broker.py:24-32  event_monitor receives EVENT_MONITOR_STOPPED and leaves
\* its loop.  Other events are logged and change nothing.
ObserverStopped ==
  /\ \E s \in SocketNames :
       /\ observers[s] = "poll" /\ monitors[s] = "open"
       /\ streams[s] = "stopped"
       /\ streams' = [streams EXCEPT ![s] = "taken"]
       /\ observers' = [observers EXCEPT ![s] = "close"]
  /\ UNCHANGED <<loopVars, debug, sockets, ctx, monitors, splitVars>>

\* broker.py:34-35  monitor_socket.close(); closing a socket that
\* destroy() closed already does nothing more.
ObserverClose ==
  /\ \E s \in SocketNames :
       /\ observers[s] = "close"
       /\ monitors' = [monitors EXCEPT ![s] = "closed"]
       /\ observers' = [observers EXCEPT ![s] = "done"]
  /\ UNCHANGED <<loopVars, debug, sockets, ctx, streams, splitVars>>

\* broker.py:24-26  poll() or recv on a monitor socket that the thread of
\* run() has closed (199): the call raises and the exception ends the
\* thread of event_monitor.
ObserverFail ==
  /\ \E s \in SocketNames :
       /\ observers[s] = "poll" /\ monitors[s] = "closed"
       /\ observers' = [observers EXCEPT ![s] = "failed"]
  /\ UNCHANGED <<loopVars, debug, sockets, ctx, monitors, streams, splitVars>>

Next ==
  \/ ClientSend
  \/ ServerSend
  \/ ControlSend
  \/ WorkerConnect
  \/ WorkerDisconnect
  \/ Interrupt
  \/ Poll
  \/ HandleControl
  \/ FrontendRecv
  \/ AuthReturn
  \/ HandleBackend
  \/ CloseSocket
  \/ DisableMonitor
  \/ DestroyContext
  \/ ObserverStopped
  \/ ObserverClose
  \/ ObserverFail

Spec == Init /\ [][Next]_vars

(***************************************************************************)
(* split_envelope on its own, for every message of up to MaxFrames frames  *)
(* out of an empty and two non-empty frames.                               *)
(***************************************************************************)
FrameValues == {EmptyFrame, FrameP, FrameA}

FrameSeqs == UNION {[1..n -> FrameValues] : n \in 0..MaxFrames}

SplitInit ==
  /\ InitBroker /\ ~debug
  /\ splitIn \in FrameSeqs
  /\ splitOut = NoSplit

\* frames.py:14-23  one call split_envelope(splitIn).
SplitCall ==
  /\ splitOut = NoSplit
  /\ splitOut' = split_envelope(splitIn)
  /\ UNCHANGED <<loopVars, runVars, splitIn>>

SplitNext == SplitCall

SpecSplit == SplitInit /\ [][SplitNext]_vars

(***************************************************************************)
(* The loop under clients and workers that never stop sending: arrivals    *)
(* are not counted, at most MaxPending messages wait at a socket.  The     *)
(* thread of run() goes on whenever it can: poll() returns when a socket   *)
(* is readable, and requests.post returns within its timeout (auth.py:12). *)
(***************************************************************************)
FloodClientSend ==
  /\ Waiting /\ Len(clientQ) < MaxPending
  /\ \E m \in ClientMessages : clientQ' = Append(clientQ, m)
  /\ UNCHANGED <<pc, events, serverQ, controlQ, workers, last, exitCause,
                 arrived, served, runVars, splitVars>>

FloodServerSend ==
  /\ Waiting /\ Len(serverQ) < MaxPending
  /\ \E w \in workers, m \in ServerReplies :
       serverQ' = Append(serverQ, <<w>> \o m)
  /\ UNCHANGED <<pc, events, clientQ, controlQ, workers, last, exitCause,
                 arrived, served, runVars, splitVars>>

FloodNext ==
  \/ FloodClientSend
  \/ FloodServerSend
  \/ WorkerConnect
  \/ WorkerDisconnect
  \/ Poll
  \/ FrontendRecv
  \/ AuthReturn
  \/ HandleBackend

FloodInit == Init /\ ~debug

SpecFlood ==
  /\ FloodInit /\ [][FloodNext]_vars
  /\ WF_vars(Poll) /\ WF_vars(FrontendRecv) /\ WF_vars(AuthReturn)
  /\ WF_vars(HandleBackend)

(***************************************************************************)
(* Properties.  The terms below restate the claims' own words on a         *)
(* received message; they do not use the operators that model the code.    *)
(***************************************************************************)
HasDelimiter(frames) == \E i \in 1..Len(frames) : frames[i] = EmptyFrame

\* The (1-based) place of the first empty frame.
FirstDelimiter(frames) ==
  CHOOSE i \in 1..Len(frames) :
    /\ frames[i] = EmptyFrame
    /\ \A j \in 1..(i - 1) : frames[j] # EmptyFrame

EnvelopeOf(frames) ==
  IF HasDelimiter(frames) THEN SubSeq(frames, 1, FirstDelimiter(frames) - 1)
  ELSE << >>

BodyOf(frames) ==
  IF HasDelimiter(frames)
    THEN SubSeq(frames, FirstDelimiter(frames) + 1, Len(frames))
    ELSE frames

\* A delimiter and at least three frames after it.
WellFramed(frames) == HasDelimiter(frames) /\ Len(BodyOf(frames)) >= 3

\* The token frame of a well-framed request is UTF-8.
TokenIsText(frames) == Utf8Decode(BodyOf(frames)[1]).ok

\* m is envelope + [empty] + [one more frame].
IsReplyTo(m, envelope) ==
  /\ Len(m) = Len(envelope) + 2
  /\ SubSeq(m, 1, Len(envelope)) = envelope
  /\ m[Len(envelope) + 1] = EmptyFrame

\* m is envelope + [empty] + [payload], the payload decoding to
\* {"error": message}.
IsErrorReply(m, envelope, message) ==
  /\ IsReplyTo(m, envelope)
  /\ PickleLoadsError(m[Len(m)]) = [ok |-> TRUE, error |-> message]

\* sent is what an error reply for (envelope, message) puts on the
\* client-facing endpoint: the one reply when there is an envelope to
\* address it, and nothing when there is none.
IsErrorOutcome(sent, envelope, message) ==
  IF envelope = << >> THEN sent = << >>
  ELSE Len(sent) = 1 /\ IsErrorReply(sent[1], envelope, message)

\* The handling of a client message has ended (last describes it).
ClientDone == last.sock = "frontend" /\ last.stage = "done"

\* The handling got a routing identity: validate_token returned a subject
\* and the subject encoded as bytes.
GotIdentity ==
  /\ ClientDone /\ ~last.raised
  /\ last.auth # NoOutcome /\ last.result.some

\* The message the claims say is forwarded.
ExpectedForward ==
  <<Utf8Encode(last.result.user_id).bytes>> \o EnvelopeOf(last.frames)
    \o <<EmptyFrame>> \o Tail(BodyOf(last.frames))

Forwarded == last.beOk /\ last.beTried = <<ExpectedForward>>

\* The text "Server not available for user <identity>." of the claims.
NotAvailableText(identity) ==
  <<83, 101, 114, 118, 101, 114, 32, 110, 111, 116, 32, 97, 118, 97, 105,
    108, 97, 98, 108, 101, 32, 102, 111, 114, 32, 117, 115, 101, 114, 32>>
    \o identity \o <<46>>

\* The identity service's answer is one the spec calls a failure:
\* unreachable or timed out, a status other than 200, or a 200 whose object
\* has no subject or an empty one.
AuthFails(o) ==
  \/ o.kind = "exception"
  \/ o.kind = "response" /\ o.status # 200
  \/ /\ o.kind = "response" /\ o.status = 200 /\ o.body = "object"
     /\ \/ o.sub.t \in {"absent", "null"}
        \/ o.sub.t = "str" /\ \A i \in 1..Len(o.sub.s) : o.sub.s[i] \in Whitespace

(***************************************************************************)
(* C1.  As claimed: every well-formed request whose token validates ends   *)
(* in exactly one of a forward to the worker (whose reply comes back) or   *)
(* one "Server not available for user <id>." reply, never neither,         *)
(* whatever the envelope length.  The forward is the least the claim needs *)
(* for the worker's reply to exist.                                        *)
(***************************************************************************)
C1_ReplyOrErrorWhateverEnvelope ==
  GotIdentity =>
    \/ Forwarded /\ last.feSent = << >>
    \/ /\ ~last.beOk
       /\ Len(last.feSent) = 1
       /\ IsErrorReply(last.feSent[1], EnvelopeOf(last.frames),
                       NotAvailableText(last.result.user_id))

\* C1, amended.  A well-formed request whose token resolves to a routing
\* identity ends in exactly one of: the forward [identity] + envelope +
\* [empty] + body[1:] accepted for the worker and nothing sent to the
\* client; or the forward refused and, when the envelope is not empty, the
\* one reply "Server not available for user <id>."; with an empty envelope
\* and the forward refused nothing is sent at all.
C1_ForwardOrErrorReply ==
  GotIdentity =>
    /\ WellFramed(last.frames) /\ TokenIsText(last.frames)
    /\ \/ Forwarded /\ last.feSent = << >>
       \/ /\ ~last.beOk
          /\ IsErrorOutcome(last.feSent, EnvelopeOf(last.frames),
                            NotAvailableText(last.result.user_id))

\* A request with an envelope was refused by the backend and answered.
C1_Witness ==
  /\ GotIdentity /\ ~last.beOk
  /\ EnvelopeOf(last.frames) # << >>
  /\ Len(last.feSent) = 1

(***************************************************************************)
(* C2.  Every message the client-request handler hands to the server-      *)
(* facing endpoint is [identity] + envelope + [empty] + body[1:], the      *)
(* identity being the subject as UTF-8; the token frame is not in it, and  *)
(* the payload frames (later empty frames too) follow in order.            *)
(***************************************************************************)
C2_ForwardShape ==
  /\ (ClientDone /\ last.beTried # << >>) =>
       /\ last.beTried = <<ExpectedForward>>
       /\ Len(last.beTried[1]) = Len(last.frames)
       /\ \A j \in 1..Len(last.beTried[1]) :
            last.beTried[1][j] # BodyOf(last.frames)[1]
  /\ (ClientDone /\ last.beOk) => last.beTried # << >>

\* A request with a two-frame envelope and an empty frame in its payload
\* was forwarded.
C2_Witness ==
  /\ ClientDone /\ last.beOk
  /\ Len(EnvelopeOf(last.frames)) = 2
  /\ \E i \in 2..Len(BodyOf(last.frames)) : BodyOf(last.frames)[i] = EmptyFrame

(***************************************************************************)
(* C3.  For every message received on the server-facing endpoint the       *)
(* broker sends on the client-facing endpoint the frames after the first,  *)
(* in order and unchanged; only the identity frame is dropped.             *)
(***************************************************************************)
C3_RoundTripFidelity ==
  last.sock = "backend" =>
    /\ Len(last.feSent) = 1
    /\ Len(last.feSent[1]) = Len(last.frames) - 1
    /\ \A i \in 1..Len(last.feSent[1]) : last.feSent[1][i] = last.frames[i + 1]
    /\ last.beTried = << >>

\* A worker's message with two empty frames in a row was relayed.
C3_Witness ==
  /\ last.sock = "backend"
  /\ \E i \in 1..(Len(last.frames) - 1) :
       last.frames[i] = EmptyFrame /\ last.frames[i + 1] = EmptyFrame
  /\ last.feSent # << >>

(***************************************************************************)
(* C4.  A client message with no delimiter or fewer than 3 frames after it *)
(* never reaches the Auth Gateway nor the server-facing endpoint; with a   *)
(* non-empty envelope the one message sent for it is the reply "Invalid    *)
(* request framing.", and without an envelope nothing is sent.             *)
(***************************************************************************)
C4_BadFraming ==
  (last.sock = "frontend" /\ ~WellFramed(last.frames)) =>
    /\ last.stage = "done"
    /\ last.auth = NoOutcome
    /\ last.beTried = << >>
    /\ IsErrorOutcome(last.feSent, EnvelopeOf(last.frames), MsgInvalidFraming)

\* A request with an envelope and two body frames was answered.
C4_Witness ==
  /\ last.sock = "frontend" /\ ~WellFramed(last.frames)
  /\ HasDelimiter(last.frames)
  /\ Len(last.feSent) = 1

(***************************************************************************)
(* C5.  A well-framed request whose token fails validation (service        *)
(* unreachable or timed out, status other than 200, subject missing or     *)
(* empty) is answered with exactly "Token validation failed.", addressed   *)
(* by its envelope, and nothing goes to the server-facing endpoint.  (A    *)
(* request without envelope frames has no address to reply to: C16.)       *)
(***************************************************************************)
C5_ValidationFailed ==
  (ClientDone /\ AuthFails(last.auth)) =>
    /\ WellFramed(last.frames)
    /\ ~last.raised
    /\ last.beTried = << >>
    /\ IsErrorOutcome(last.feSent, EnvelopeOf(last.frames),
                      MsgTokenValidationFailed)

\* A token the service rejected with a status other than 200, although the
\* response names a subject, was answered.
C5_Witness ==
  /\ ClientDone /\ AuthFails(last.auth)
  /\ last.auth.kind = "response" /\ last.auth.status # 200
  /\ last.auth.sub.t = "str"
  /\ Len(last.feSent) = 1

(***************************************************************************)
(* C6.  A well-framed request whose token frame is not UTF-8 is answered   *)
(* with "Token is not valid utf-8." addressed by its envelope (b"cid1" for *)
(* the spec's request), without a call of the Auth Gateway and without a   *)
(* send on the server-facing endpoint.                                     *)
(***************************************************************************)
C6_TokenNotUtf8 ==
  /\ (last.sock = "frontend" /\ WellFramed(last.frames)
        /\ ~TokenIsText(last.frames)) =>
       /\ last.stage = "done"
       /\ last.auth = NoOutcome
       /\ last.beTried = << >>
       /\ IsErrorOutcome(last.feSent, EnvelopeOf(last.frames), MsgTokenNotUtf8)
  /\ (last.sock = "frontend" /\ last.frames = ScenarioBadToken) =>
       /\ Len(last.feSent) = 1
       /\ last.feSent[1][1] = Cid1
       /\ last.feSent[1][2] = EmptyFrame
       /\ PickleLoadsError(last.feSent[1][3]).error = MsgTokenNotUtf8

\* The spec's request with the token b"\xff\xfe" was answered.
C6_Witness ==
  /\ last.sock = "frontend" /\ last.frames = ScenarioBadToken
  /\ last.feSent # << >>

(***************************************************************************)
(* C7.  As claimed: every authenticated request whose send on the server-  *)
(* facing endpoint fails is answered on the client-facing endpoint with a  *)
(* payload that decodes to {"error": "Server not available for user        *)
(* <identity>."}, the spec's scenario request (delimiter first) included.  *)
(***************************************************************************)
C7_UnroutableAlwaysAnswered ==
  (ClientDone /\ last.beTried # << >> /\ ~last.beOk) =>
    /\ Len(last.feSent) = 1
    /\ PickleLoadsError(last.feSent[1][Len(last.feSent[1])])
         = [ok |-> TRUE, error |-> NotAvailableText(last.result.user_id)]

\* C7, amended.  An authenticated request whose send fails is answered
\* with that payload when its envelope is not empty.  For the spec's
\* scenario request, whose envelope is empty, the forward attempted is
\* [b"alice", b"", b"do_work", b"x=1"] and, with no worker registered as
\* "alice", nothing is sent to the client.
C7_UnroutableAnsweredByEnvelope ==
  /\ (ClientDone /\ last.beTried # << >> /\ ~last.beOk) =>
       IsErrorOutcome(last.feSent, EnvelopeOf(last.frames),
                      NotAvailableText(last.result.user_id))
  /\ (GotIdentity /\ last.frames = ScenarioRequest
        /\ last.result.user_id = Alice) =>
       /\ last.beTried = << <<Alice, EmptyFrame, DoWork, XEq1>> >>
       /\ ~last.beOk => last.feSent = << >>

\* The send for a request with an envelope was refused and answered with
\* the error naming the trimmed subject "bob".
C7_Witness ==
  /\ ClientDone /\ last.beTried # << >> /\ ~last.beOk
  /\ last.result.user_id = Bob
  /\ Len(last.feSent) = 1
  /\ last.feSent[1][1] = Cid1

(***************************************************************************)
(* C8.  No client request, whatever the identity service answers for it,   *)
(* makes the engine leave the Running state: the loop is left only after a *)
(* command TERMINATE, STOP or QUIT, or an operator interrupt.              *)
(***************************************************************************)
C8_LoopLeftOnlyOnCommand ==
  ~Running => exitCause \in {"shutdown", "interrupt"}

(***************************************************************************)
(* C9.  validate never raises: every outcome of the call other than a 200  *)
(* with a non-empty trimmed subject gives the uniform failure, and a       *)
(* routing identity is returned only for status 200, being the trimmed     *)
(* subject.                                                                *)
(***************************************************************************)
C9_ValidateNeverRaises ==
  (ClientDone /\ last.auth # NoOutcome) =>
    /\ ~last.result.raised
    /\ last.result.some =>
         /\ last.auth.kind = "response" /\ last.auth.status = 200
         /\ last.result.user_id # << >>
         /\ last.result.user_id = Strip(SubText(last.auth.sub))

(***************************************************************************)
(* C10.  Every command received on the control endpoint is answered with   *)
(* one "OK"; a command that is not exactly TERMINATE, STOP or QUIT leaves  *)
(* the loop running; one that is makes the loop stop, after the "OK".      *)
(***************************************************************************)
C10_ControlAcknowledged ==
  /\ last.sock = "control" =>
       /\ last.ctlSent = <<OK>>
       /\ last.feSent = << >> /\ last.beTried = << >>
       /\ last.frames[1] \in {TERMINATE, STOP, QUIT} =>
            ~Running /\ exitCause = "shutdown"
       /\ last.frames[1] \notin {TERMINATE, STOP, QUIT} =>
            Running \/ exitCause = "interrupt"
  /\ exitCause = "shutdown" =>
       last.sock = "control" /\ last.frames[1] \in {TERMINATE, STOP, QUIT}

\* The command b"terminate" in lower case was acknowledged and the loop
\* runs, with a further command waiting.
C10_Witness ==
  /\ last.sock = "control"
  /\ last.frames[1] = <<116, 101, 114, 109, 105, 110, 97, 116, 101>>
  /\ controlQ # << >>
  /\ Running

SubjectDestination(sub) ==
  CASE sub = SubValue("str", <<97, 108, 105, 99, 101>>, 0)
         -> <<97, 108, 105, 99, 101>>
    [] sub = SubValue("str", <<32, 98, 111, 98, 32, 10>>, 0) -> <<98, 111, 98>>
    [] sub = SubValue("str", <<233>>, 0) -> <<195, 169>>
    [] sub = SubValue("int", << >>, 42) -> <<52, 50>>
    [] OTHER -> << >>

C12_RoutingDeterminism ==
  (ClientDone /\ last.beTried # << >>) =>
    /\ Len(last.beTried) = 1
    /\ last.auth.kind = "response" /\ last.auth.body = "object"
    /\ last.beTried[1][1] = SubjectDestination(last.auth.sub)
    /\ last.beTried[1][1] # << >>

\* A request with a two-frame envelope and the token "t\u00e9" resolved to
\* the subject " bob \n" and was handed to the server-facing endpoint for
\* the identity "bob".
C12_Witness ==
  /\ ClientDone /\ last.beTried # << >>
  /\ last.auth.sub = SubValue("str", <<32, 98, 111, 98, 32, 10>>, 0)
  /\ Len(EnvelopeOf(last.frames)) = 2
  /\ last.beTried[1][1] = <<98, 111, 98>>

(***************************************************************************)
(* C13.  Ordering: the client message read is always the one that waits    *)
(* longest; it is read only when the handling of the one before it has     *)
(* ended; what is sent for it is sent before anything else is read; and    *)
(* while its auth call is pending no control, server or client message is  *)
(* received.                                                               *)
(***************************************************************************)
C13_OneAtATimeInOrder ==
  [][ /\ (Running /\ Len(clientQ') < Len(clientQ)) =>
           /\ last.stage = "done"
           /\ clientQ' = Tail(clientQ)
           /\ last'.sock = "frontend" /\ last'.frames = Head(clientQ)
           /\ serverQ' = serverQ /\ controlQ' = controlQ
      /\ pc = "auth" =>
           /\ Len(clientQ') >= Len(clientQ)
           /\ Len(serverQ') >= Len(serverQ)
           /\ Len(controlQ') >= Len(controlQ)
           /\ \/ last' = last
              \/ /\ last'.sock = "frontend" /\ last'.frames = last.frames
                 /\ last'.stage = "done"
      /\ (last' # last /\ last'.sock = "frontend") =>
           \/ last'.frames = last.frames /\ last.stage = "auth"
           \/ clientQ # << >> /\ last'.frames = Head(clientQ)
                /\ clientQ' = Tail(clientQ) ]_vars

\* A client request was answered after its auth call, during which a
\* second client request, different from it, and a control command arrived:
\* both still wait.
C13_Witness ==
  /\ ClientDone /\ last.auth # NoOutcome
  /\ clientQ # << >> /\ Head(clientQ) # last.frames
  /\ controlQ # << >>
  /\ events = {"frontend"}

(***************************************************************************)
(* C14.  When an iteration of the loop has ended and the loop is back at   *)
(* poll, each of the endpoints that the poll of that iteration reported    *)
(* ready has been read in it, and no other, whatever the handling of the   *)
(* other ready endpoints came to.                                          *)
(***************************************************************************)
C14_EveryReadyEndpointServiced ==
  pc = "poll" => served = events

\* The queue that waits at socket s.
QueueOf(s) ==
  IF s = "control" THEN controlQ ELSE IF s = "frontend" THEN clientQ ELSE serverQ

\* The client request handled last ended in a path that ends the
\* iteration (118, 125, 131).
EndedInContinue(h) ==
  /\ h.sock = "frontend" /\ h.stage = "done" /\ ~h.raised
  /\ h.beTried = << >>

\* What does hold of an iteration: an endpoint is read only if the poll
\* reported it ready, at most once, one message each time; back at poll,
\* the only reported endpoint left unread is the server-facing one, and
\* that exactly when the client request of the iteration ended in the
\* invalid-framing, the not-UTF-8 or the validation-failed path.
IterationReadsReportedEndpoints ==
  [][ /\ \A s \in SocketNames :
           /\ s \in served' \ served =>
                /\ s \in events
                /\ QueueOf(s) # << >> /\ QueueOf(s)' = Tail(QueueOf(s))
           /\ Len(QueueOf(s)') < Len(QueueOf(s)) => s \in served' \ served
      /\ (pc # "poll" /\ pc' = "poll") =>
           /\ served' \subseteq events
           /\ events \ served' \subseteq {"backend"}
           /\ ("backend" \in events \ served') <=>
                ("backend" \in events /\ EndedInContinue(last'))
      /\ (Running /\ ~Running' /\ pc # "poll") =>
           /\ served' \subseteq events
           /\ "control" \in events => "control" \in served' ]_vars

(***************************************************************************)
(* C15.  Teardown order: the steps after the loop come in the order stop   *)
(* polling, close the client-facing, the server-facing and the control     *)
(* endpoint, disable diagnostics (debug mode only), release the context,   *)
(* each at most once.  No endpoint is closed while the loop is Running,    *)
(* and nothing is received or sent on a primary endpoint after it was      *)
(* closed.                                                                 *)
(***************************************************************************)
\* The place of a statement of the teardown in the order of the claim;
\* 0 while the loop runs.
TeardownRank(p) ==
  CASE p = "finally" -> 1
    [] p = "close_backend" -> 2
    [] p = "close_control" -> 3
    [] p \in {"disable_frontend", "disable_backend", "disable_control"} -> 4
    [] p = "destroy" -> 5
    [] p \in {"closed", "aborted"} -> 6
    [] OTHER -> 0

DisableRank(p) ==
  CASE p = "disable_frontend" -> 1
    [] p = "disable_backend" -> 2
    [] p = "disable_control" -> 3
    [] OTHER -> 0

IsClosed(s) == sockets[s] = "closed"

C15_TeardownOrder ==
  /\ [](/\ (\E s \in SocketNames : IsClosed(s)) => ~Running
        /\ IsClosed("frontend") <=> TeardownRank(pc) >= 2
        /\ IsClosed("backend") <=> TeardownRank(pc) >= 3
        /\ IsClosed("control") <=> TeardownRank(pc) >= 4
        /\ TeardownRank(pc) = 4 => debug
        /\ ctx = "destroyed" <=> pc = "closed")
  /\ [][ /\ ~Running => ~Running'
         /\ (~Running /\ pc' # pc) =>
              \/ TeardownRank(pc') > TeardownRank(pc)
              \/ TeardownRank(pc) = 4 /\ TeardownRank(pc') = 4
                   /\ DisableRank(pc') > DisableRank(pc)
         /\ \A s \in SocketNames :
              /\ IsClosed(s) => sockets'[s] = "closed"
              /\ IsClosed(s) => QueueOf(s)' = QueueOf(s)
         /\ (\E s \in SocketNames : IsClosed(s)) => last' = last
         /\ ctx = "destroyed" => ctx' = "destroyed" ]_vars

\* In debug mode the loop was left on a shutdown command and the teardown
\* ran to the release of the context.
C15_Witness ==
  /\ debug /\ exitCause = "shutdown"
  /\ pc = "closed" /\ ctx = "destroyed"
  /\ \A s \in SocketNames : IsClosed(s)

(***************************************************************************)
(* C16.  Every error reply that the broker sends on the client-facing      *)
(* endpoint is the request's envelope frames, one empty frame and one      *)
(* payload frame that decodes to {"error": <message>} with a message of    *)
(* the catalogue; an error path sends the reply if and only if the         *)
(* envelope is not empty, and with an empty envelope nothing is sent on    *)
(* any endpoint and the loop goes on.                                      *)
(***************************************************************************)
ErrorCatalogue(h) ==
  {MsgInvalidFraming, MsgTokenNotUtf8, MsgTokenValidationFailed,
   NotAvailableText(h.result.user_id)}

\* The handling of a client message ended without a forward that the
\* server-facing endpoint accepted and without an exception.
TookErrorPath(h) ==
  h.sock = "frontend" /\ h.stage = "done" /\ ~h.raised /\ ~h.beOk

C16_ErrorReplyShape ==
  last.sock = "frontend" =>
    LET envelope == EnvelopeOf(last.frames)
    IN  /\ \A i \in 1..Len(last.feSent) :
             LET m == last.feSent[i]
                 d == PickleLoadsError(m[Len(m)])
             IN  /\ d.ok
                 /\ d.error \in ErrorCatalogue(last)
                 /\ IsReplyTo(m, envelope)
        /\ TookErrorPath(last) =>
             /\ Len(last.feSent) = (IF envelope = << >> THEN 0 ELSE 1)
             /\ last.ctlSent = << >>
             /\ Running \/ exitCause = "interrupt"

\* The error reply to a request with a two-frame envelope: four frames.
C16_Witness ==
  /\ TookErrorPath(last)
  /\ Len(EnvelopeOf(last.frames)) = 2
  /\ Len(last.feSent) = 1 /\ Len(last.feSent[1]) = 4
  /\ last.feSent[1][3] = EmptyFrame

(***************************************************************************)
(* C17.  split_envelope(frames), for every frame sequence: with a zero-    *)
(* length frame in it, the result is (envelope, i, body) where i is the    *)
(* index of the first zero-length frame, envelope is the frames before it  *)
(* and has no zero-length frame, body is the frames after it, and          *)
(* envelope + [empty] + body is frames; with none, the result is (empty,   *)
(* none, frames).  The input is not modified.                              *)
(***************************************************************************)
C17_SplitAtFirstDelimiter ==
  /\ [](splitOut # NoSplit =>
         IF \E i \in 1..Len(splitIn) : Len(splitIn[i]) = 0
           THEN LET i == splitOut.idx + 1      \* idx counts from 0
                IN  /\ splitOut.found
                    /\ i \in 1..Len(splitIn) /\ Len(splitIn[i]) = 0
                    /\ \A j \in 1..(i - 1) : Len(splitIn[j]) > 0
                    /\ Len(splitOut.envelope) = i - 1
                    /\ \A j \in 1..(i - 1) : splitOut.envelope[j] = splitIn[j]
                    /\ Len(splitOut.body) = Len(splitIn) - i
                    /\ \A j \in 1..Len(splitOut.body) :
                         splitOut.body[j] = splitIn[i + j]
                    /\ splitOut.envelope \o << << >> >> \o splitOut.body
                         = splitIn
           ELSE /\ ~splitOut.found
                /\ splitOut.envelope = << >>
                /\ splitOut.body = splitIn)
  /\ [][splitIn' = splitIn]_vars

\* The call returned for a message with two zero-length frames and a
\* frame before the first of them.
C17_Witness ==
  /\ splitOut # NoSplit /\ splitOut.found
  /\ splitOut.idx = 1
  /\ Len(splitIn) = 4 /\ splitIn[4] = << >>
  /\ Len(splitOut.body) = 2

(***************************************************************************)
(* C18.  At most one output per client request: the handling of one client *)
(* message hands at most one message to the server-facing endpoint, and    *)
(* what is delivered for it is at most one message in all: one forward     *)
(* that the server-facing endpoint accepted or one error reply, never      *)
(* both, never two of a kind.                                              *)
(***************************************************************************)
C18_AtMostOneOutput ==
  last.sock = "frontend" =>
    /\ Len(last.beTried) <= 1
    /\ last.beOk => Len(last.beTried) = 1
    /\ Len(last.feSent) + (IF last.beOk THEN 1 ELSE 0) <= 1
    /\ last.ctlSent = << >>

\* The one forward of a request was refused and one error reply sent.
C18_Witness ==
  /\ ClientDone /\ ~last.raised
  /\ Len(last.beTried) = 1 /\ ~last.beOk
  /\ Len(last.feSent) = 1

(***************************************************************************)
(* C19.  No server reply is lost to a client-side error: when the client   *)
(* request of an iteration ends in an error path that skips the rest of    *)
(* the iteration, the server message that was reported ready stays queued, *)
(* and it is received and forwarded in a later iteration, provided the     *)
(* loop keeps running; server messages are forwarded in arrival order.     *)
(***************************************************************************)
\* Back at poll after an error path, a reported server message unread.
SkippedReply ==
  /\ pc = "poll" /\ EndedInContinue(last)
  /\ "backend" \in events \ served
  /\ serverQ # << >>

C19_SkippedReplyForwardedLater ==
  /\ [][ /\ (last' # last /\ EndedInContinue(last')) => serverQ' = serverQ
         /\ Len(serverQ') < Len(serverQ) =>
              /\ serverQ' = Tail(serverQ)
              /\ last'.sock = "backend" /\ last'.frames = Head(serverQ)
              /\ last'.feSent = <<Tail(Head(serverQ))>> ]_vars
  /\ SkippedReply ~> (~Running \/ pc = "backend")

\* The part of C19 that holds: the skipped message stays queued, and
\* server messages are taken and forwarded in arrival order.
SkippedReplyStaysQueued ==
  [][ /\ (last' # last /\ EndedInContinue(last')) => serverQ' = serverQ
      /\ Len(serverQ') < Len(serverQ) =>
           /\ serverQ' = Tail(serverQ)
           /\ last'.sock = "backend" /\ last'.frames = Head(serverQ)
           /\ last'.feSent = <<Tail(Head(serverQ))>> ]_vars

(***************************************************************************)
(* C20.  Teardown in debug mode, under every interleaving: the thread of   *)
(* run() is never stopped short of the release of the context, and no      *)
(* observer thread ends otherwise than by observing the stream-stopped     *)
(* event and closing its monitoring input.                                 *)
(***************************************************************************)
C20_DebugTeardownCompletes ==
  debug =>
    /\ pc # "aborted"
    /\ \A s \in SocketNames : observers[s] # "failed"
    /\ pc = "closed" => ctx = "destroyed"

====
